---- MODULE Spec2Model ----
(***************************************************************************)
(* Board identification and port mapping of the Tummler flight controller  *)
(* (flight_controller_detector/linux/tummler.py).                          *)
(*                                                                         *)
(* detect() walks the values of the devices table in insertion order and   *)
(* asks the I2C probe about each (address, bus) entry; get_serials()       *)
(* returns a fixed table.  Callers are threads of the registry that call   *)
(* the two methods; every probe of a detect() call is one atomic step, so  *)
(* that calls of different callers interleave probe by probe.              *)
(***************************************************************************)
EXTENDS Integers, Sequences, FiniteSets, TLC

\* ------------------------------------------------------------------ bounds
MaxDevices == 2        \* longest devices table a descriptor is given
MaxProbeCalls == 3     \* cap of the probe-call counter

\* ------------------------------------------------------- static data
\* tummler.py:10  the value of devices["STM32"]: the tuple (0x66, 1)
STM32 == <<102, 1>>

\* tummler.py:9-11  the devices dict, as the sequence of its values in
\* insertion order (what devices.values() iterates)
devices == <<STM32>>

\* typedefs.Serial(port=..., endpoint=...)
Serial(port, endpoint) == [port |-> port, endpoint |-> endpoint]

\* The entries a devices table may hold, as (address, bus) tuples: the
\* Tummler entry, the same numbers the other way round, and a third device.
\* 0x66 = 102.
Entries == {STM32, <<1, 102>>, <<1, 1>>}

\* The cells of the simulated host, as <<bus_number, address>>: bus 1
\* address 0x66, bus 0x66 address 1, bus 1 address 1.
Cells == {<<e[2], e[1]>> : e \in Entries}

\* What one probe of a cell does: report present, report absent, or raise
\* BusAccessError.
ProbeOutcomes == {"present", "absent", "fault"}

\* All devices tables of at most MaxDevices entries, each device listed under
\* one key, in every insertion order; the Tummler table is one of them.
DeviceTables ==
    {d \in UNION {[1..n -> Entries] : n \in 0..MaxDevices} :
        \A i, j \in DOMAIN d : d[i] = d[j] => i = j}

Callers == {"t1", "t2"}

VARIABLES
    bus,           \* bus[<<bus_number, address>>]: what a probe of the cell does
    pc,            \* pc[c]: "idle", "detect" (inside detect()), "done"
    op,            \* op[c]: the method of the caller's current call
    devs,          \* devs[c]: self.devices of the descriptor of the call
    idx,           \* idx[c]: position of the generator in devs[c].values()
    probes,        \* probes[c]: the probes of the call: <<bus, address, reported>>
    ret,           \* ret[c]: what detect() ended with
    serials,       \* serials[c]: what get_serials() returned
    probeCalls,    \* number of calls of check_for_i2c_device so far
    detectCalled,  \* a detect() call was started at some point
    firstSerials   \* << >>, or <<v>> once a first get_serials() call returned v

vars == <<bus, pc, op, devs, idx, probes, ret, serials, probeCalls,
          detectCalled, firstSerials>>

\* ------------------------------------------------------------ the probe
\* LinuxFlightController.check_for_i2c_device(bus_number, address): one
\* existence check of the address on the bus.
check_for_i2c_device(b, bus_number, address) == b[<<bus_number, address>>]

\* ------------------------------------------------------------ detect()
\* tummler.py:19  "for address, bus in self.devices.values()" and the call
\* check_for_i2c_device(bus, address): the arguments of the probe of an entry.
\* Variant: the tuple unpacked as bus, address.
ProbeArgsSwapped(entry) == [bus_number |-> entry[1], address |-> entry[2]]
ProbeArgs(entry) == [bus_number |-> entry[2], address |-> entry[1]]

\* tummler.py:19  all(...) over the generator: what follows one probe.  A
\* falsy element ends all() with False, an exception leaves detect(), a
\* truthy element lets all() ask for the next one.
\* Variant: the value of the probe is dropped, only exceptions end the walk.
AllNextIgnoreAbsent(reported) ==
    CASE reported = "fault"   -> "BusAccessError"
      [] reported = "absent"  -> "continue"
      [] reported = "present" -> "continue"
\* Variant: the exception is caught and counted as absent.
AllNextFaultIsAbsent(reported) ==
    CASE reported = "fault"   -> "False"
      [] reported = "absent"  -> "False"
      [] reported = "present" -> "continue"
\* Variant: the walk returns at its first element.
AllNextFirstOnly(reported) ==
    CASE reported = "fault"   -> "BusAccessError"
      [] reported = "absent"  -> "False"
      [] reported = "present" -> "True"
\* Variant: the exception is caught and the walk goes on.
AllNextSkipFault(reported) ==
    CASE reported = "fault"   -> "continue"
      [] reported = "absent"  -> "False"
      [] reported = "present" -> "continue"
AllNext(reported) ==
    CASE reported = "fault"   -> "BusAccessError"
      [] reported = "absent"  -> "False"
      [] reported = "present" -> "continue"

\* tummler.py:19  all(...) when the generator is exhausted: True.
\* Variant: an empty table does not match.
AllExhaustedNonEmpty(d) == IF Len(d) = 0 THEN "False" ELSE "True"
AllExhausted(d) == "True"

\* tummler.py:18-19  detect() run alone on table d against bus b, from
\* position i with the probes log made so far: the result and the probes.
RECURSIVE DetectFrom(_, _, _, _)
DetectFrom(d, b, i, log) ==
    IF i > Len(d)
    THEN [ret |-> AllExhausted(d), probes |-> log]
    ELSE LET a == ProbeArgs(d[i])
             reported == check_for_i2c_device(b, a.bus_number, a.address)
             log2 == Append(log, <<a.bus_number, a.address, reported>>)
             nxt == AllNext(reported)
         IN  IF nxt = "continue"
             THEN DetectFrom(d, b, i + 1, log2)
             ELSE [ret |-> nxt, probes |-> log2]

detect(d, b) == DetectFrom(d, b, 1, <<>>)

\* ------------------------------------------------------- get_serials()
\* tummler.py:21-25
\* Variant: the two ports listed the other way round.
get_serials_swapped ==
    << Serial("B", "/dev/ttyAMA2"), Serial("C", "/dev/ttyAMA0") >>
\* Variant: the table is returned only while the board answers.
get_serials_if_detected ==
    IF bus[<<1, 102>>] = "present"
    THEN << Serial("C", "/dev/ttyAMA0"), Serial("B", "/dev/ttyAMA2") >>
    ELSE << >>
get_serials ==
    << Serial("C", "/dev/ttyAMA0"), Serial("B", "/dev/ttyAMA2") >>

\* ------------------------------------------------------------- states
Init ==
    /\ bus \in [Cells -> ProbeOutcomes]
    /\ pc = [c \in Callers |-> "idle"]
    /\ op = [c \in Callers |-> "none"]
    /\ devs = [c \in Callers |-> << >>]
    /\ idx = [c \in Callers |-> 0]
    /\ probes = [c \in Callers |-> << >>]
    /\ ret = [c \in Callers |-> "none"]
    /\ serials = [c \in Callers |-> << >>]
    /\ probeCalls = 0
    /\ detectCalled = FALSE
    /\ firstSerials = << >>

\* A caller enters detect() of a descriptor whose devices table is d.
CallDetect(c, d) ==
    /\ pc[c] = "idle"
    /\ pc' = [pc EXCEPT ![c] = "detect"]
    /\ op' = [op EXCEPT ![c] = "detect"]
    /\ devs' = [devs EXCEPT ![c] = d]
    /\ idx' = [idx EXCEPT ![c] = 1]
    /\ probes' = [probes EXCEPT ![c] = << >>]
    /\ ret' = [ret EXCEPT ![c] = "none"]
    /\ detectCalled' = TRUE
    /\ UNCHANGED <<bus, serials, probeCalls, firstSerials>>

\* tummler.py:19  one step of all(...): the generator is exhausted and
\* detect() returns True, or the next entry is probed.
\* Variant: the position of the walk is kept in one place for all calls.
DetectStepSharedCursor(c) ==
    /\ pc[c] = "detect"
    /\ IF idx[c] > Len(devs[c])
       THEN /\ pc' = [pc EXCEPT ![c] = "done"]
            /\ ret' = [ret EXCEPT ![c] = AllExhausted(devs[c])]
            /\ UNCHANGED <<idx, probes, probeCalls>>
       ELSE LET a == ProbeArgs(devs[c][idx[c]])
                reported == check_for_i2c_device(bus, a.bus_number, a.address)
                nxt == AllNext(reported)
            IN  /\ probeCalls < MaxProbeCalls
                /\ probeCalls' = probeCalls + 1
                /\ probes' = [probes EXCEPT ![c] =
                       Append(@, <<a.bus_number, a.address, reported>>)]
                /\ IF nxt = "continue"
                   THEN /\ idx' = [o \in Callers |->
                               IF pc[o] = "detect" THEN idx[o] + 1 ELSE idx[o]]
                        /\ UNCHANGED <<pc, ret>>
                   ELSE /\ pc' = [pc EXCEPT ![c] = "done"]
                        /\ ret' = [ret EXCEPT ![c] = nxt]
                        /\ UNCHANGED idx
    /\ UNCHANGED <<bus, op, devs, serials, detectCalled, firstSerials>>
DetectStep(c) ==
    /\ pc[c] = "detect"
    /\ IF idx[c] > Len(devs[c])
       THEN /\ pc' = [pc EXCEPT ![c] = "done"]
            /\ ret' = [ret EXCEPT ![c] = AllExhausted(devs[c])]
            /\ UNCHANGED <<idx, probes, probeCalls>>
       ELSE LET a == ProbeArgs(devs[c][idx[c]])
                reported == check_for_i2c_device(bus, a.bus_number, a.address)
                nxt == AllNext(reported)
            IN  /\ probeCalls < MaxProbeCalls
                /\ probeCalls' = probeCalls + 1
                /\ probes' = [probes EXCEPT ![c] =
                       Append(@, <<a.bus_number, a.address, reported>>)]
                /\ IF nxt = "continue"
                   THEN /\ idx' = [idx EXCEPT ![c] = @ + 1]
                        /\ UNCHANGED <<pc, ret>>
                   ELSE /\ pc' = [pc EXCEPT ![c] = "done"]
                        /\ ret' = [ret EXCEPT ![c] = nxt]
                        /\ UNCHANGED idx
    /\ UNCHANGED <<bus, op, devs, serials, detectCalled,
                   firstSerials>>

\* tummler.py:21-25  a whole get_serials() call.
\* Variant: get_serials() probes the board before it answers.
GetSerialsProbing(c) ==
    LET a == ProbeArgs(devices[1])
        reported == check_for_i2c_device(bus, a.bus_number, a.address)
    IN  /\ pc[c] = "idle"
        /\ probeCalls < MaxProbeCalls
        /\ probeCalls' = probeCalls + 1
        /\ pc' = [pc EXCEPT ![c] = "done"]
        /\ op' = [op EXCEPT ![c] = "get_serials"]
        /\ IF reported = "fault"
           THEN /\ ret' = [ret EXCEPT ![c] = "BusAccessError"]
                /\ UNCHANGED <<serials, firstSerials>>
           ELSE /\ serials' = [serials EXCEPT ![c] = get_serials]
                /\ firstSerials' = IF firstSerials = << >>
                                   THEN <<get_serials>> ELSE firstSerials
                /\ UNCHANGED ret
        /\ UNCHANGED <<bus, devs, idx, probes, detectCalled>>
GetSerials(c) ==
    /\ pc[c] = "idle"
    /\ pc' = [pc EXCEPT ![c] = "done"]
    /\ op' = [op EXCEPT ![c] = "get_serials"]
    /\ serials' = [serials EXCEPT ![c] = get_serials]
    /\ firstSerials' = IF firstSerials = << >> THEN <<get_serials>>
                                               ELSE firstSerials
    /\ UNCHANGED <<bus, devs, idx, probes, ret, probeCalls, detectCalled>>

\* The caller has taken the result of its call and may call again.
Finish(c) ==
    /\ pc[c] = "done"
    /\ pc' = [pc EXCEPT ![c] = "idle"]
    /\ op' = [op EXCEPT ![c] = "none"]
    /\ devs' = [devs EXCEPT ![c] = << >>]
    /\ idx' = [idx EXCEPT ![c] = 0]
    /\ probes' = [probes EXCEPT ![c] = << >>]
    /\ ret' = [ret EXCEPT ![c] = "none"]
    /\ serials' = [serials EXCEPT ![c] = << >>]
    /\ UNCHANGED <<bus, probeCalls, detectCalled, firstSerials>>

\* The hardware changes: a device appears, disappears, or the bus breaks.
SetBus(cell, v) ==
    /\ bus[cell] # v
    /\ bus' = [bus EXCEPT ![cell] = v]
    /\ UNCHANGED <<pc, op, devs, idx, probes, ret, serials, probeCalls,
                   detectCalled, firstSerials>>

NextFixedBus ==
    \/ \E c \in Callers, d \in DeviceTables : CallDetect(c, d)
    \/ \E c \in Callers : DetectStep(c)
    \/ \E c \in Callers : GetSerials(c)
    \/ \E c \in Callers : Finish(c)

Next ==
    \/ NextFixedBus
    \/ \E cell \in Cells, v \in ProbeOutcomes : SetBus(cell, v)

\* The bus may change between and during calls.
Spec == Init /\ [][Next]_vars

\* The bus keeps the state it starts in.
SpecFixedBus == Init /\ [][NextFixedBus]_vars

\* ---------------------------------------------------------- properties
\* The cell an (address, bus) entry names: bus index e[2], address e[1].
CellOf(e) == <<e[2], e[1]>>

\* The caller holds the result of a finished detect() call.
DoneDetect(c) == pc[c] = "done" /\ op[c] = "detect"

\* The caller holds the result of a finished get_serials() call.
DoneSerials(c) == pc[c] = "done" /\ op[c] = "get_serials"

\* No cell of table d raises on the bus.
NoFault(d) == \A i \in DOMAIN d : bus[CellOf(d[i])] # "fault"

\* Every cell of table d is present on the bus.
AllPresent(d) == \A i \in DOMAIN d : bus[CellOf(d[i])] = "present"

\* The tables that hold the entries of d in some order.
Reorderings(d) ==
    {p \in DeviceTables :
        Len(p) = Len(d) /\ {p[i] : i \in DOMAIN p} = {d[i] : i \in DOMAIN d}}

\* No probe of the caller's call raised.
NoProbeRaised(c) == \A i \in DOMAIN probes[c] : probes[c][i][3] # "fault"

\* C1: on a bus that does not change, a finished detect() over a non-empty
\* table no probe of which raised returned True or False, and True exactly
\* when every entry of the table is present; one absent entry makes it False.
C1_DetectIffAllPresent ==
    \A c \in Callers :
        (DoneDetect(c) /\ Len(devs[c]) > 0 /\ NoProbeRaised(c)) =>
            /\ ret[c] \in {"True", "False"}
            /\ ret[c] = "True" <=> AllPresent(devs[c])
            /\ (\E i \in DOMAIN devs[c] : bus[CellOf(devs[c][i])] = "absent")
                   => ret[c] = "False"

\* One call returned True over two present entries while another returned
\* False over a table with an absent and a present entry.
C1_Witness ==
    \E c, o \in Callers :
        /\ DoneDetect(c) /\ Len(devs[c]) = 2 /\ AllPresent(devs[c])
        /\ ret[c] = "True"
        /\ DoneDetect(o) /\ Len(devs[o]) = 2 /\ NoFault(devs[o])
        /\ bus[CellOf(devs[o][1])] = "absent"
        /\ bus[CellOf(devs[o][2])] = "present"
        /\ ret[o] = "False"

\* C2: a detect() call one of whose probes raised BusAccessError has ended,
\* and ended with BusAccessError, not with True or False; the raising probe
\* is the last one of the call.
C2_FaultPropagates ==
    \A c \in Callers :
        \A i \in DOMAIN probes[c] :
            probes[c][i][3] = "fault" =>
                /\ pc[c] = "done"
                /\ ret[c] = "BusAccessError"
                /\ ret[c] \notin {"True", "False"}
                /\ i = Len(probes[c])

\* A call whose first entry was present and whose second probe raised ended
\* with BusAccessError.
C2_Witness ==
    \E c \in Callers :
        /\ DoneDetect(c) /\ Len(devs[c]) = 2 /\ Len(probes[c]) = 2
        /\ probes[c][1][3] = "present"
        /\ probes[c][2][3] = "fault"
        /\ ret[c] = "BusAccessError"

\* C3: every get_serials() call returns the sequence (C, /dev/ttyAMA0),
\* (B, /dev/ttyAMA2), in that order, whatever the bus is and whatever
\* detect() calls were made.
C3_SerialsExact ==
    \A c \in Callers :
        DoneSerials(c) =>
            /\ Len(serials[c]) = 2
            /\ serials[c][1] = [port |-> "C", endpoint |-> "/dev/ttyAMA0"]
            /\ serials[c][2] = [port |-> "B", endpoint |-> "/dev/ttyAMA2"]

\* get_serials() returned while the board's cell is absent and another
\* caller's detect() of the Tummler table had returned False.
C3_Witness ==
    \E c, o \in Callers :
        /\ DoneSerials(c) /\ serials[c] # << >>
        /\ bus[<<1, 102>>] = "absent"
        /\ DoneDetect(o) /\ devs[o] = devices /\ ret[o] = "False"

\* C4: every result of get_serials() a caller holds equals the one the first
\* get_serials() call returned, whatever detect() calls and bus changes
\* happened in between.
C4_SerialsIdempotent ==
    \A c \in Callers :
        DoneSerials(c) =>
            /\ Len(firstSerials) = 1
            /\ Len(serials[c]) = Len(firstSerials[1])
            /\ \A i \in DOMAIN serials[c] : serials[c][i] = firstSerials[1][i]

\* Two get_serials() results are held after detect() was called, probes were
\* made and the board's cell is not present.
C4_Witness ==
    /\ \A c \in Callers : DoneSerials(c)
    /\ detectCalled
    /\ probeCalls > 0
    /\ bus[<<1, 102>>] # "present"

\* C5: a get_serials() call leaves the probe-call counter unchanged and ends
\* without an exception; as long as no detect() call was made the counter
\* is zero.
C5_SerialsNeverProbe ==
    /\ [][\A c \in Callers :
            (pc[c] = "idle" /\ op'[c] = "get_serials") =>
                /\ probeCalls' = probeCalls
                /\ ret'[c] = "none"
                /\ pc'[c] = "done"]_vars
    /\ [](~detectCalled => probeCalls = 0)
    /\ [](\A c \in Callers : DoneSerials(c) => ret[c] = "none")

\* get_serials() returned on a bus every access of which faults, with no
\* probe made.
C5_Witness ==
    /\ \A cell \in Cells : bus[cell] = "fault"
    /\ \A c \in Callers : DoneSerials(c) /\ serials[c] # << >>
    /\ probeCalls = 0
    /\ ~detectCalled

\* s is an initial part of t.
IsPrefix(s, t) ==
    /\ Len(s) <= Len(t)
    /\ \A i \in DOMAIN s : s[i] = t[i]

\* C6: on a bus that does not change, under every interleaving of the calls
\* of the callers, a finished detect() call has the result and the probes of
\* detect() run alone on its table, a call in flight has made an initial
\* part of those probes, and a finished get_serials() call has the table of
\* get_serials().
C6_ConcurrentAsAlone ==
    \A c \in Callers :
        /\ DoneSerials(c) => serials[c] = get_serials
        /\ DoneDetect(c) =>
              /\ ret[c] = detect(devs[c], bus).ret
              /\ probes[c] = detect(devs[c], bus).probes
        /\ pc[c] = "detect" =>
              /\ IsPrefix(probes[c], detect(devs[c], bus).probes)
              /\ idx[c] = Len(probes[c]) + 1

\* Two detect() calls over different tables are in flight together, each
\* past its first probe, and a third position is still to come for one.
C6_Witness ==
    /\ \A c \in Callers : pc[c] = "detect" /\ idx[c] = 2 /\ Len(devs[c]) = 2
    /\ \E c, o \in Callers : devs[c] # devs[o]

\* C7: on a bus that does not change, detect() of the Tummler table probes
\* bus 1 at address 0x66 and nothing else: it returns True when that cell is
\* present and False when it is absent, whatever the other cells are.
C7_TummlerProbesBus1Addr66 ==
    /\ devices = << <<102, 1>> >>
    /\ \A c \in Callers :
          (DoneDetect(c) /\ devs[c] = devices) =>
              /\ bus[<<1, 102>>] = "present" => ret[c] = "True"
              /\ bus[<<1, 102>>] = "absent" => ret[c] = "False"
              /\ Len(probes[c]) = 1
              /\ probes[c][1][1] = 1
              /\ probes[c][1][2] = 102

\* detect() of the Tummler table returned True with bus 0x66 address 1
\* absent, and a second call returned the same.
C7_Witness ==
    /\ bus[<<1, 102>>] = "present"
    /\ bus[<<102, 1>>] = "absent"
    /\ bus[<<1, 1>>] = "fault"
    /\ \A c \in Callers : DoneDetect(c) /\ devs[c] = devices /\ ret[c] = "True"

\* C8: on a bus that does not change, a finished detect() over a table none
\* of whose cells raises returned what detect() returns on every
\* permutation of the table.
C8_OrderIrrelevant ==
    \A c \in Callers :
        (DoneDetect(c) /\ NoFault(devs[c])) =>
            \A p \in Reorderings(devs[c]) : detect(p, bus).ret = ret[c]

\* A call returned False after one probe where the reversed table takes two
\* probes to return False.
C8_Witness ==
    \E c \in Callers :
        /\ DoneDetect(c) /\ NoFault(devs[c]) /\ Len(devs[c]) = 2
        /\ ret[c] = "False"
        /\ Len(probes[c]) = 1
        /\ \E p \in Reorderings(devs[c]) :
              /\ p # devs[c]
              /\ Len(detect(p, bus).probes) = 2
              /\ detect(p, bus).ret = "False"

\* C9: within one detect() call the i-th probe is of the i-th entry, so no
\* entry is probed twice; every probe but the last reported present, so
\* nothing is probed after an absent report or a fault; a call that
\* returned True made exactly one probe per entry.
C9_NoRetryShortCircuit ==
    \A c \in Callers :
        /\ Len(probes[c]) <= Len(devs[c])
        /\ \A i \in DOMAIN probes[c] :
              /\ probes[c][i][1] = CellOf(devs[c][i])[1]
              /\ probes[c][i][2] = CellOf(devs[c][i])[2]
              /\ i < Len(probes[c]) => probes[c][i][3] = "present"
        /\ (DoneDetect(c) /\ ret[c] = "True") => Len(probes[c]) = Len(devs[c])
        /\ (DoneDetect(c) /\ ret[c] # "True") =>
              /\ Len(probes[c]) >= 1
              /\ probes[c][Len(probes[c])][3] # "present"

\* One call returned True after two probes of two entries; another stopped
\* after its first probe, which reported absent, with an entry left.
C9_Witness ==
    \E c, o \in Callers :
        /\ DoneDetect(c) /\ Len(devs[c]) = 2 /\ Len(probes[c]) = 2
        /\ ret[c] = "True"
        /\ DoneDetect(o) /\ Len(devs[o]) = 2 /\ Len(probes[o]) = 1
        /\ probes[o][1][3] = "absent"

\* C10: detect() over an empty table makes no probe and returns True,
\* whatever the bus is.
C10_EmptyTableTrue ==
    \A c \in Callers :
        (op[c] = "detect" /\ devs[c] = << >>) =>
            /\ probes[c] = << >>
            /\ pc[c] = "done" => ret[c] = "True"

\* detect() over an empty table returned True on a bus every access of
\* which faults.
C10_Witness ==
    \E c \in Callers :
        /\ DoneDetect(c) /\ devs[c] = << >> /\ ret[c] = "True"
        /\ probes[c] = << >>
        /\ \A cell \in Cells : bus[cell] = "fault"

====
